---- MODULE Spec2Model ----
(***************************************************************************)
(* Model of sfm::bundler::Features (libs/sfm/bundler_features.cc): the     *)
(* scene-level compute(), which validates its arguments, pre-sizes the     *)
(* viewport list and runs one task per view inside an OpenMP parallel loop, *)
(* and the per-view compute<FEATURE>(), which loads descriptors from the   *)
(* feature embedding or computes them on a rescaled image, writes the      *)
(* embedding back and fills the view's viewport.                           *)
(***************************************************************************)
EXTENDS Integers, Sequences, FiniteSets, TLC

VARIABLES
    opts,         \* this->opts: feature_embedding, force_recompute, skip_saving_views, max_image_size
    type,         \* argument FeatureType type
    scene,        \* argument scene: present flag and the view list as given
    vp_given,     \* argument viewports != NULL
    viewports,    \* *viewports, the output list
    build,        \* how the loop is compiled and run: OpenMP on/off, number of threads
    status,       \* the call of compute(scene, type, viewports): "called", "parallel" (in the loop),
                  \* "returned", "rejected" (thrown by the argument checks), "threw" (thrown
                  \* out of the loop to the caller), "terminated" (std::terminate)
    error,        \* exception raised, "" when none
    pc,           \* position of the loop iteration of each view index
    img,          \* local img of each iteration (width, height)
    descriptors,  \* local descriptors of each iteration
    embedding,    \* in-memory feature embedding of each view (view->set_data / get_data)
    disk,         \* persisted feature embedding of each view (view->save_mve_file)
    trace,        \* per view: calls made on its behalf (history)
    prev          \* what the previous call of compute on the scene ended with (history)

vars == <<opts, type, scene, vp_given, viewports, build, status, error,
          pc, img, descriptors, embedding, disk, trace, prev>>

(* ------------------------------ bounds --------------------------------- *)
NumViews == 2
MaxDim == 4
MaxBudget == 4
MaxFeat == 2

(* ------------------------- values and helpers -------------------------- *)
SIFT_FEATURES == "SIFT"
SURF_FEATURES == "SURF"
OTHER_FEATURES == "OTHER"

Min(a, b) == IF a < b THEN a ELSE b

(* Largest value of int, the type of the image dimensions, of their        *)
(* product and of max_image_size.                                          *)
INT_MAX == 2147483647

Image(w, h) == [width |-> w, height |-> h]
NoImage == Image(0, 0)

NoData == [has |-> FALSE, bytes |-> <<>>]
Data(b) == [has |-> TRUE, bytes |-> b]

DefaultViewport ==
    [width |-> 0, height |-> 0, positions |-> <<>>, colors |-> <<>>, descr_data |-> <<>>]

NoTrace ==
    [runs |-> 0, image_loads |-> 0, detector_calls |-> 0, decodes |-> 0,
     set_data |-> 0, saves |-> 0, cleanups |-> 0, halvings |-> 0,
     slot_writes |-> 0, skipped |-> FALSE, res |-> NoImage]

descriptor_length(t) == IF t = SIFT_FEATURES THEN 128 ELSE 64

rescale_half_size(im) == Image(im.width \div 2, im.height \div 2)

linear_at(im, x, y) == <<x % 256, y % 256, (im.width + 2 * im.height) % 256>>

(* Half the pixel count, at most MaxFeat: the factors are capped first, so  *)
(* that the count is also defined for the largest images.                  *)
NumFeatures(im) ==
    Min(MaxFeat, (Min(im.width, 2 * MaxFeat) * Min(im.height, 2 * MaxFeat)) \div 2)

Detect(t, im) ==
    [k \in 1..NumFeatures(im) |->
        [x |-> (k - 1) % im.width,
         y |-> (k - 1) \div im.width,
         data |-> [j \in 1..descriptor_length(t) |->
                      (im.width + 3 * im.height + 5 * k + j) % 251]]]

RecordLen(len) == len + 2

descriptors_to_embedding(D, w, h) ==
    LET len == IF D = <<>> THEN 0 ELSE Len(D[1].data)
        L == RecordLen(len)
    IN  [k \in 1..(2 + Len(D) * L) |->
            IF k = 1 THEN w
            ELSE IF k = 2 THEN h
            ELSE LET r == ((k - 3) \div L) + 1
                     o == (k - 3) % L
                 IN  IF o = 0 THEN D[r].x
                     ELSE IF o = 1 THEN D[r].y
                     ELSE D[r].data[o - 1]]

embedding_ok(bytes, len) ==
    /\ Len(bytes) >= 2
    /\ (Len(bytes) - 2) % RecordLen(len) = 0

embedding_to_descriptors(bytes, len) ==
    LET L == RecordLen(len)
        n == (Len(bytes) - 2) \div L
    IN  [width |-> bytes[1],
         height |-> bytes[2],
         descriptors |->
            [r \in 1..n |->
                [x |-> bytes[2 + (r - 1) * L + 1],
                 y |-> bytes[2 + (r - 1) * L + 2],
                 data |-> [j \in 1..len |-> bytes[2 + (r - 1) * L + 2 + j]]]]]

(* ----------------------- code of the two compute()s -------------------- *)
Indices == 1..Len(scene.views)

ValidType == type \in {SIFT_FEATURES, SURF_FEATURES}

SlotOfFirst(i) == 1
SlotOf(i) == i

has_data_embedding(i) == opts.feature_embedding # "" /\ embedding[i].has

UseCacheForced(i) == opts.force_recompute /\ has_data_embedding(i)
UseCache(i) == ~opts.force_recompute /\ has_data_embedding(i)

(* The product a * b of two non-negative ints does not fit an int. *)
IntOverflows(a, b) == a > 0 /\ b > INT_MAX \div a

OverBudgetOrEqual(im, max) == im.width * im.height >= max
OverBudget(im, max) == im.width * im.height > max

(* Outcomes of the loop condition of the budget loop: signed overflow of   *)
(* the product is undefined behaviour, the test can then come out either  *)
(* way.                                                                   *)
BudgetTest(im, max) ==
    IF IntOverflows(im.width, im.height) THEN BOOLEAN ELSE {OverBudget(im, max)}

AboveTargetOrEqual(im, vp) == im.width >= vp.width /\ im.height >= vp.height
AboveTarget(im, vp) == im.width > vp.width /\ im.height > vp.height

MismatchWidthOnly(im, vp) == im.width # vp.width
Mismatch(im, vp) == im.width # vp.width \/ im.height # vp.height

WriteBackBlobOfViewport(D, im, vp) == descriptors_to_embedding(D, vp.width, vp.height)
WriteBackBlob(D, im, vp) == descriptors_to_embedding(D, im.width, im.height)

ShouldSave(o) == ~o.skip_saving_views

FillViewportShort(vp, D, im, len) ==
    [vp EXCEPT
        !.descr_data = [k \in 1..(Len(D) * len) |->
                           D[((k - 1) \div len) + 1].data[((k - 1) % len) + 1]],
        !.positions = [k \in 1..(Len(D) - 1) |-> <<D[k].x, D[k].y>>],
        !.colors = [k \in 1..Len(D) |-> linear_at(im, D[k].x, D[k].y)]]
FillViewportTransposed(vp, D, im, len) ==
    [vp EXCEPT
        !.descr_data = [k \in 1..(Len(D) * len) |->
                           D[((k - 1) \div len) + 1].data[((k - 1) % len) + 1]],
        !.positions = [k \in 1..Len(D) |-> <<D[k].y, D[k].x>>],
        !.colors = [k \in 1..Len(D) |-> linear_at(im, D[k].x, D[k].y)]]
FillViewport(vp, D, im, len) ==
    [vp EXCEPT
        !.descr_data = [k \in 1..(Len(D) * len) |->
                           D[((k - 1) \div len) + 1].data[((k - 1) % len) + 1]],
        !.positions = [k \in 1..Len(D) |-> <<D[k].x, D[k].y>>],
        !.colors = [k \in 1..Len(D) |-> linear_at(im, D[k].x, D[k].y)]]

Running(i) == pc[i] \notin {"pending", "done", "failed"}

(* schedule(dynamic,1) hands the iterations out in index order, one to each  *)
(* thread that asks: an iteration can start when a thread is left for it    *)
(* beside the iterations in progress and the lower ones not yet started.    *)
CanDispatch(i) ==
    Cardinality({j \in Indices : Running(j) \/ (j < i /\ pc[j] = "pending")})
        < build.nthreads

MayStep(i, at) ==
    /\ status = "parallel"
    /\ pc[i] = at
    /\ at = "pending" => CanDispatch(i)

Raise(i, kind) ==
    /\ pc' = [pc EXCEPT ![i] = "failed"]
    /\ error' = kind
    /\ status' = IF build.omp THEN "terminated" ELSE "threw"

Pick(f, t, g) == IF g \in DOMAIN f THEN f[g] ELSE t[g]

Note(i, f) ==
    trace' = [trace EXCEPT ![i] =
        [runs |-> Pick(f, @, "runs"),
         image_loads |-> Pick(f, @, "image_loads"),
         detector_calls |-> Pick(f, @, "detector_calls"),
         decodes |-> Pick(f, @, "decodes"),
         set_data |-> Pick(f, @, "set_data"),
         saves |-> Pick(f, @, "saves"),
         cleanups |-> Pick(f, @, "cleanups"),
         halvings |-> Pick(f, @, "halvings"),
         slot_writes |-> Pick(f, @, "slot_writes"),
         skipped |-> Pick(f, @, "skipped"),
         res |-> Pick(f, @, "res")]]

NoCall == [calls |-> 0, opts |-> <<>>, img |-> <<>>, descriptors |-> <<>>, trace |-> <<>>]

(* What one call of compute leaves alone. *)
Static == <<opts, type, scene, vp_given, build, prev>>

ComputeInvalidArgsClearing ==
    /\ status = "called"
    /\ \/ ~scene.present
       \/ ~vp_given /\ opts.feature_embedding = ""
    /\ viewports' = <<>>
    /\ status' = "rejected"
    /\ error' = "InvalidArgument"
    /\ UNCHANGED <<Static, pc, img, descriptors, embedding, disk, trace>>

ComputeInvalidArgs ==
    /\ status = "called"
    /\ \/ ~scene.present
       \/ ~vp_given /\ opts.feature_embedding = ""
    /\ status' = "rejected"
    /\ error' = "InvalidArgument"
    /\ UNCHANGED <<Static, viewports, pc, img, descriptors, embedding, disk, trace>>

ComputeBeginNoClear ==
    /\ status = "called"
    /\ scene.present
    /\ vp_given \/ opts.feature_embedding # ""
    /\ viewports' = IF vp_given
                    THEN [i \in Indices |->
                            IF i <= Len(viewports) THEN viewports[i] ELSE DefaultViewport]
                    ELSE viewports
    /\ status' = "parallel"
    /\ UNCHANGED <<Static, error, pc, img, descriptors, embedding, disk, trace>>

ComputeBegin ==
    /\ status = "called"
    /\ scene.present
    /\ vp_given \/ opts.feature_embedding # ""
    /\ viewports' = IF vp_given
                    THEN [i \in Indices |-> DefaultViewport]
                    ELSE viewports
    /\ status' = "parallel"
    /\ UNCHANGED <<Static, error, pc, img, descriptors, embedding, disk, trace>>

IterNull(i) ==
    /\ MayStep(i, "pending")
    /\ ~scene.views[i].present
    /\ pc' = [pc EXCEPT ![i] = "done"]
    /\ Note(i, [runs |-> trace[i].runs + 1])
    /\ UNCHANGED <<Static, viewports, status, error, img, descriptors, embedding, disk>>

IterInvalidType(i) ==
    /\ MayStep(i, "pending")
    /\ scene.views[i].present
    /\ ~ValidType
    /\ Raise(i, "InvalidArgument")
    /\ Note(i, [runs |-> trace[i].runs + 1])
    /\ UNCHANGED <<Static, viewports, img, descriptors, embedding, disk>>

ViewSkip(i) ==
    /\ MayStep(i, "pending")
    /\ scene.views[i].present
    /\ ValidType
    /\ UseCache(i)
    /\ ~vp_given
    /\ pc' = [pc EXCEPT ![i] = "done"]
    /\ Note(i, [runs |-> trace[i].runs + 1, skipped |-> TRUE])
    /\ UNCHANGED <<Static, viewports, status, error, img, descriptors, embedding, disk>>

ViewLoad(i) ==
    /\ MayStep(i, "pending")
    /\ scene.views[i].present
    /\ ValidType
    /\ UseCache(i)
    /\ vp_given
    /\ embedding_ok(embedding[i].bytes, descriptor_length(type))
    /\ LET dec == embedding_to_descriptors(embedding[i].bytes, descriptor_length(type))
       IN  /\ viewports' = [viewports EXCEPT ![SlotOf(i)].width = dec.width,
                                             ![SlotOf(i)].height = dec.height]
           /\ descriptors' = [descriptors EXCEPT ![i] = dec.descriptors]
           /\ img' = [img EXCEPT ![i] = scene.views[i].image]
           /\ pc' = [pc EXCEPT ![i] = IF Len(dec.descriptors) = 0 THEN "budget" ELSE "match"]
           /\ Note(i, [runs |-> trace[i].runs + 1,
                       decodes |-> trace[i].decodes + 1,
                       image_loads |-> trace[i].image_loads + 1,
                       slot_writes |-> trace[i].slot_writes + 1,
                       res |-> Image(dec.width, dec.height)])
    /\ UNCHANGED <<Static, status, error, embedding, disk>>

ViewLoadFormatError(i) ==
    /\ MayStep(i, "pending")
    /\ scene.views[i].present
    /\ ValidType
    /\ UseCache(i)
    /\ vp_given
    /\ ~embedding_ok(embedding[i].bytes, descriptor_length(type))
    /\ Raise(i, "FormatError")
    /\ Note(i, [runs |-> trace[i].runs + 1, decodes |-> trace[i].decodes + 1])
    /\ UNCHANGED <<Static, viewports, img, descriptors, embedding, disk>>

ViewFresh(i) ==
    /\ MayStep(i, "pending")
    /\ scene.views[i].present
    /\ ValidType
    /\ ~UseCache(i)
    /\ img' = [img EXCEPT ![i] = scene.views[i].image]
    /\ pc' = [pc EXCEPT ![i] = "budget"]
    /\ Note(i, [runs |-> trace[i].runs + 1,
                image_loads |-> trace[i].image_loads + 1])
    /\ UNCHANGED <<Static, viewports, status, error, descriptors, embedding, disk>>

BudgetHalve(i) ==
    /\ MayStep(i, "budget")
    /\ TRUE \in BudgetTest(img[i], opts.max_image_size)
    /\ img' = [img EXCEPT ![i] = rescale_half_size(@)]
    /\ Note(i, [halvings |-> trace[i].halvings + 1])
    /\ UNCHANGED <<Static, viewports, status, error, pc, descriptors, embedding, disk>>

DetectFeatures(i) ==
    /\ MayStep(i, "budget")
    /\ FALSE \in BudgetTest(img[i], opts.max_image_size)
    /\ descriptors' = [descriptors EXCEPT ![i] = Detect(type, img[i])]
    /\ pc' = [pc EXCEPT ![i] = "writeback"]
    /\ Note(i, [detector_calls |-> trace[i].detector_calls + 1, res |-> img[i]])
    /\ UNCHANGED <<Static, viewports, status, error, img, embedding, disk>>

MatchHalve(i) ==
    /\ MayStep(i, "match")
    /\ AboveTarget(img[i], viewports[SlotOf(i)])
    /\ img' = [img EXCEPT ![i] = rescale_half_size(@)]
    /\ Note(i, [halvings |-> trace[i].halvings + 1])
    /\ UNCHANGED <<Static, viewports, status, error, pc, descriptors, embedding, disk>>

MatchFail(i) ==
    /\ MayStep(i, "match")
    /\ ~AboveTarget(img[i], viewports[SlotOf(i)])
    /\ Mismatch(img[i], viewports[SlotOf(i)])
    /\ Raise(i, "ResolutionMismatch")
    /\ UNCHANGED <<Static, viewports, img, descriptors, embedding, disk, trace>>

MatchOk(i) ==
    /\ MayStep(i, "match")
    /\ ~AboveTarget(img[i], viewports[SlotOf(i)])
    /\ ~Mismatch(img[i], viewports[SlotOf(i)])
    /\ pc' = [pc EXCEPT ![i] = "writeback"]
    /\ UNCHANGED <<Static, viewports, status, error, img, descriptors, embedding, disk, trace>>

WriteBack(i) ==
    /\ MayStep(i, "writeback")
    /\ IF opts.feature_embedding # ""
       THEN LET vp == IF vp_given THEN viewports[SlotOf(i)] ELSE DefaultViewport
                blob == Data(WriteBackBlob(descriptors[i], img[i], vp))
            IN  /\ embedding' = [embedding EXCEPT ![i] = blob]
                /\ disk' = IF ShouldSave(opts) THEN [disk EXCEPT ![i] = blob] ELSE disk
                /\ Note(i, [set_data |-> trace[i].set_data + 1,
                            saves |-> trace[i].saves + (IF ShouldSave(opts) THEN 1 ELSE 0)])
       ELSE UNCHANGED <<embedding, disk, trace>>
    /\ pc' = [pc EXCEPT ![i] = "build"]
    /\ UNCHANGED <<Static, viewports, status, error, img, descriptors>>

BuildViewport(i) ==
    /\ MayStep(i, "build")
    /\ IF vp_given
       THEN /\ viewports' = [viewports EXCEPT ![SlotOf(i)] =
                                FillViewport(@, descriptors[i], img[i], descriptor_length(type))]
            /\ Note(i, [slot_writes |-> trace[i].slot_writes + 1,
                        cleanups |-> trace[i].cleanups + 1])
       ELSE /\ UNCHANGED viewports
            /\ Note(i, [cleanups |-> trace[i].cleanups + 1])
    /\ pc' = [pc EXCEPT ![i] = "done"]
    /\ UNCHANGED <<Static, status, error, img, descriptors, embedding, disk>>

ComputeReturn ==
    /\ status = "parallel"
    /\ \A i \in Indices : pc[i] = "done"
    /\ status' = "returned"
    /\ UNCHANGED <<Static, viewports, error, pc, img, descriptors, embedding, disk, trace>>

Next ==
    \/ ComputeInvalidArgs
    \/ ComputeBegin
    \/ \E i \in Indices : IterNull(i)
    \/ \E i \in Indices : IterInvalidType(i)
    \/ \E i \in Indices : ViewSkip(i)
    \/ \E i \in Indices : ViewLoad(i)
    \/ \E i \in Indices : ViewLoadFormatError(i)
    \/ \E i \in Indices : ViewFresh(i)
    \/ \E i \in Indices : BudgetHalve(i)
    \/ \E i \in Indices : DetectFeatures(i)
    \/ \E i \in Indices : MatchHalve(i)
    \/ \E i \in Indices : MatchFail(i)
    \/ \E i \in Indices : MatchOk(i)
    \/ \E i \in Indices : WriteBack(i)
    \/ \E i \in Indices : BuildViewport(i)
    \/ ComputeReturn

(* A later call of compute on the same scene, in the same process: the      *)
(* views keep their source images and hold the feature embeddings the      *)
(* previous call left in memory; the caller asks for viewports, does not   *)
(* force recomputation and may have changed the pixel budget.              *)
ComputeAgain ==
    /\ status = "returned"
    /\ prev.calls = 0
    /\ \E max \in 1..MaxBudget :
          opts' = [opts EXCEPT !.force_recompute = FALSE, !.max_image_size = max]
    /\ vp_given' = TRUE
    /\ viewports' = IF vp_given THEN viewports ELSE <<>>
    /\ scene' = [scene EXCEPT !.views =
                    [i \in Indices |-> [scene.views[i] EXCEPT !.data = embedding[i]]]]
    /\ prev' = [calls |-> 1, opts |-> opts, img |-> img,
                descriptors |-> descriptors, trace |-> trace]
    /\ status' = "called"
    /\ pc' = [i \in Indices |-> "pending"]
    /\ img' = [i \in Indices |-> NoImage]
    /\ descriptors' = [i \in Indices |-> <<>>]
    /\ trace' = [i \in Indices |-> NoTrace]
    /\ UNCHANGED <<type, build, error, embedding, disk>>

NextRuns == Next \/ ComputeAgain

(* ------------------------------- inputs -------------------------------- *)
Dims == 1..MaxDim
Targets == 1..MaxDim
Budgets == 1..MaxBudget
Variants == {SIFT_FEATURES, SURF_FEATURES}

AbsentView == [present |-> FALSE, image |-> NoImage, data |-> NoData]
View(im, d) == [present |-> TRUE, image |-> im, data |-> d]

CachedSets == {<<>>, Detect(SIFT_FEATURES, Image(2, 1)), Detect(SURF_FEATURES, Image(2, 2))}

AllOptions ==
    [feature_embedding : {"", "features"}, force_recompute : BOOLEAN,
     skip_saving_views : BOOLEAN, max_image_size : {1, MaxBudget}]

Builds(n) ==
    {[omp |-> FALSE, nthreads |-> 1]}
        \cup {[omp |-> TRUE, nthreads |-> k] : k \in 1..(IF n = 0 THEN 1 ELSE n)}

StaleViewport ==
    [width |-> 1, height |-> 1, positions |-> << <<0, 0>> >>,
     colors |-> << <<0, 0, 3>> >>, descr_data |-> <<>>]

InitFrom(Scenes, Options, Types, Given) ==
    \E sc \in Scenes, o \in Options, t \in Types, g \in Given :
      \E b \in Builds(Len(sc.views)) :
        /\ scene = sc
        /\ opts = o
        /\ type = t
        /\ vp_given = g
        /\ build = b
        /\ viewports = IF g THEN <<StaleViewport>> ELSE <<>>
        /\ status = "called"
        /\ error = ""
        /\ pc = [i \in 1..Len(sc.views) |-> "pending"]
        /\ img = [i \in 1..Len(sc.views) |-> NoImage]
        /\ descriptors = [i \in 1..Len(sc.views) |-> <<>>]
        /\ embedding = [i \in 1..Len(sc.views) |-> sc.views[i].data]
        /\ disk = [i \in 1..Len(sc.views) |-> sc.views[i].data]
        /\ trace = [i \in 1..Len(sc.views) |-> NoTrace]
        /\ prev = NoCall

AbsentScene == [present |-> FALSE, views |-> <<>>]

SceneOf(vs) == [present |-> TRUE, views |-> vs]

Cached(D, w, h) == Data(descriptors_to_embedding(D, w, h))

OneSift == Detect(SIFT_FEATURES, Image(2, 1))

(* Views of the parallel run: absent, not cached, cached at a resolution   *)
(* that halving the image reaches, cached at one that it misses.           *)
ParViews ==
    {AbsentView,
     View(Image(4, 2), NoData),
     View(Image(4, 2), Cached(OneSift, 2, 1)),
     View(Image(4, 2), Cached(OneSift, 3, 1))}

ParOptions ==
    [feature_embedding : {"", "features"}, force_recompute : {FALSE},
     skip_saving_views : BOOLEAN, max_image_size : {MaxBudget}]

ParScenes ==
    {AbsentScene, SceneOf(<<>>)} \cup {SceneOf(vs) : vs \in [1..NumViews -> ParViews]}

Init ==
    InitFrom(ParScenes, ParOptions, Variants \cup {OTHER_FEATURES}, BOOLEAN)

Spec == Init /\ [][Next]_vars

(* Scenes of one view, for the per-view code: every option with a few      *)
(* views; every image size against every cached resolution; every image    *)
(* size against every budget.                                              *)
AnyScenes ==
    {AbsentScene, SceneOf(<<>>)}
        \cup {SceneOf(<<v>>) : v \in ParViews \cup {View(Image(1, 1), Cached(<<>>, 1, 1))}}

LoadScenes ==
    {SceneOf(<<View(Image(w, h), Cached(D, tw, th))>>) :
        w \in Dims, h \in Dims, tw \in Targets, th \in Targets, D \in CachedSets}

LoadOptions ==
    [feature_embedding : {"features"}, force_recompute : {FALSE},
     skip_saving_views : {FALSE}, max_image_size : {MaxBudget}]

FreshScenes ==
    {SceneOf(<<View(Image(w, h), NoData)>>) : w \in Dims, h \in Dims}

FreshOptions ==
    [feature_embedding : {"", "features"}, force_recompute : BOOLEAN,
     skip_saving_views : BOOLEAN, max_image_size : Budgets]

InitView ==
    \/ InitFrom(AnyScenes, AllOptions, Variants \cup {OTHER_FEATURES}, BOOLEAN)
    \/ InitFrom(LoadScenes, LoadOptions, Variants, {TRUE})
    \/ InitFrom(FreshScenes, FreshOptions, Variants, BOOLEAN)

SpecView == InitView /\ [][Next]_vars

(* Two calls in a row: the scenes of one view without a cache entry, every *)
(* image size and budget, beside the views of every kind.                  *)
RunOptions ==
    [feature_embedding : {"features"}, force_recompute : BOOLEAN,
     skip_saving_views : BOOLEAN, max_image_size : Budgets]

InitRuns ==
    \/ InitFrom(AnyScenes, AllOptions, Variants \cup {OTHER_FEATURES}, BOOLEAN)
    \/ InitFrom(FreshScenes, RunOptions, Variants, BOOLEAN)

SpecRuns == InitRuns /\ [][NextRuns]_vars

(* Images as large as int dimensions allow, beside the views of every      *)
(* kind: the pixel count of 65536 x 65536 is 2^32.                         *)
WideDims == {3, 32768, 65536}

WideScenes ==
    {SceneOf(<<View(Image(w, h), NoData)>>) : w \in WideDims, h \in WideDims}

WideOptions ==
    [feature_embedding : {"", "features"}, force_recompute : {FALSE},
     skip_saving_views : {FALSE}, max_image_size : Budgets]

InitWide ==
    \/ InitFrom(AnyScenes, AllOptions, Variants \cup {OTHER_FEATURES}, BOOLEAN)
    \/ InitFrom(WideScenes, WideOptions, Variants, {TRUE})

SpecWide == InitWide /\ [][Next]_vars

(* ------------------------------- claims -------------------------------- *)
Source(i) == scene.views[i].image
Named == opts.feature_embedding # ""
Cache0(i) == scene.views[i].data
Decoded0(i) == embedding_to_descriptors(Cache0(i).bytes, descriptor_length(type))
Past(i) == pc[i] \in {"writeback", "build", "done"}

(* The view is present, its cache entry exists and decodes, recomputation  *)
(* is not forced and an output record is requested.                        *)
LoadCase(i) ==
    /\ scene.views[i].present
    /\ ValidType
    /\ ~opts.force_recompute
    /\ Named /\ Cache0(i).has
    /\ embedding_ok(Cache0(i).bytes, descriptor_length(type))
    /\ vp_given

(* C1: a present view with a cache entry, force_recompute = false and an   *)
(* output record requested takes the LoadPath: the detector is never       *)
(* invoked for it and the descriptors it goes on with are the decoded ones, *)
(* also when the cache decodes to zero descriptors.                        *)
C1_LoadPathNeverDetects ==
    \A i \in Indices :
        LoadCase(i) =>
            /\ trace[i].detector_calls = 0
            /\ (Past(i) /\ ~trace[i].skipped) => descriptors[i] = Decoded0(i).descriptors

SkipCase(i) ==
    /\ scene.views[i].present
    /\ ~opts.force_recompute
    /\ Named /\ Cache0(i).has
    /\ ~vp_given

(* C2: with force_recompute = false, a view that has a cache entry and no  *)
(* output record requested is skipped: no image load, no detector call, no *)
(* cache write, no save.                                                   *)
C2_SkipDoesNothing ==
    \A i \in Indices :
        SkipCase(i) =>
            /\ trace[i].image_loads = 0
            /\ trace[i].detector_calls = 0
            /\ trace[i].decodes = 0
            /\ trace[i].set_data = 0
            /\ trace[i].saves = 0
            /\ embedding[i] = Cache0(i)
            /\ disk[i] = Cache0(i)
            /\ pc[i] \in {"pending", "done", "failed"}
            /\ (pc[i] = "done" => trace[i].skipped)

C2_Witness ==
    \E i \in Indices :
        SkipCase(i) /\ pc[i] = "done" /\ trace[i].runs = 1 /\ status = "returned"

Completed(i) ==
    scene.views[i].present /\ pc[i] \in {"build", "done"} /\ ~trace[i].skipped

(* C3: when the cache-store name is configured, a task that is neither     *)
(* skipped nor failed sets the view's cache entry to the encoding of the   *)
(* descriptors with the resolution of the image they belong to, on either  *)
(* path, and saves the view iff skip_saving_views is false; when the name  *)
(* is not configured nothing is written or saved.                          *)
C3_WriteBack ==
    \A i \in Indices :
        /\ (Named /\ Completed(i)) =>
              /\ embedding[i] = Data(descriptors_to_embedding(descriptors[i],
                                        trace[i].res.width, trace[i].res.height))
              /\ trace[i].set_data = 1
              /\ trace[i].saves = (IF opts.skip_saving_views THEN 0 ELSE 1)
              /\ disk[i] = (IF opts.skip_saving_views THEN Cache0(i) ELSE embedding[i])
        /\ ~Named =>
              /\ trace[i].set_data = 0 /\ trace[i].saves = 0
              /\ embedding[i] = Cache0(i) /\ disk[i] = Cache0(i)

C3_Witness ==
    /\ \E i \in Indices :
          /\ Named /\ Completed(i) /\ pc[i] = "done" /\ opts.skip_saving_views
          /\ trace[i].decodes = 1 /\ trace[i].detector_calls = 0
          /\ Len(descriptors[i]) > 0 /\ trace[i].halvings > 0

C3_WitnessComputed ==
    \E i \in Indices :
        /\ Named /\ Completed(i) /\ ~opts.skip_saving_views
        /\ trace[i].detector_calls = 1 /\ trace[i].halvings > 0
        /\ Len(descriptors[i]) > 0 /\ disk[i] # Cache0(i)

(* C4: every populated Viewport has the (width, height) of the image its   *)
(* descriptors were computed at: the cached resolution on the LoadPath,    *)
(* the rescaled source resolution on the ComputePath.                      *)
C4_ViewportResolution ==
    \A i \in Indices :
        (vp_given /\ scene.views[i].present /\ pc[i] = "done") =>
            /\ viewports[i].width = trace[i].res.width
            /\ viewports[i].height = trace[i].res.height

C4_Witness ==
    \E i \in Indices :
        /\ vp_given /\ scene.views[i].present /\ pc[i] = "done"
        /\ trace[i].decodes = 1 /\ trace[i].detector_calls = 0
        /\ viewports[i].width = trace[i].res.width
        /\ viewports[i].height = trace[i].res.height

Area(im) == im.width * im.height

RECURSIVE HalveTimes(_, _)
HalveTimes(im, n) == IF n = 0 THEN im ELSE HalveTimes(rescale_half_size(im), n - 1)

(* Number of halvings of "halve while width > tw and height > th".         *)
RECURSIVE MatchSteps(_, _)
MatchSteps(im, t) ==
    IF im.width > t.width /\ im.height > t.height
    THEN 1 + MatchSteps(rescale_half_size(im), t)
    ELSE 0

(* Number of halvings of "halve while width * height > max".               *)
RECURSIVE BudgetSteps(_, _)
BudgetSteps(im, max) ==
    IF im.width * im.height > max
    THEN 1 + BudgetSteps(rescale_half_size(im), max)
    ELSE 0

Target(i) == Image(Decoded0(i).width, Decoded0(i).height)

(* The task of view i rescales to the cached resolution: the cache decodes *)
(* to at least one descriptor.                                             *)
MatchCase(i) == LoadCase(i) /\ Len(Decoded0(i).descriptors) > 0

(* The LoadPath loop taken by itself: it halves the source image while     *)
(* width > targetW and height > targetH, and ends with an image of exactly *)
(* the cached (width, height) or fails the task with ResolutionMismatch.   *)
C5_RescaleToMatch ==
    \A i \in Indices :
        (MatchCase(i) /\ pc[i] # "pending") =>
            /\ img[i] = HalveTimes(Source(i), trace[i].halvings)
            /\ trace[i].halvings <= MatchSteps(Source(i), Target(i))
            /\ trace[i].detector_calls = 0
            /\ pc[i] \in {"match", "writeback", "build", "done", "failed"}
            /\ pc[i] # "match" => trace[i].halvings = MatchSteps(Source(i), Target(i))
            /\ Past(i) => img[i] = Target(i)
            /\ pc[i] = "failed" =>
                  /\ error = "ResolutionMismatch"
                  /\ img[i] # Target(i)
                  /\ viewports[i].positions = <<>>
                  /\ viewports[i].colors = <<>>
                  /\ viewports[i].descr_data = <<>>
            /\ pc[i] = "done" =>
                  /\ viewports[i].width = Target(i).width
                  /\ viewports[i].height = Target(i).height
                  /\ Len(viewports[i].colors) = Len(Decoded0(i).descriptors)
                  /\ \A k \in 1..Len(viewports[i].colors) :
                        viewports[i].colors[k] =
                            linear_at(Target(i), Decoded0(i).descriptors[k].x,
                                      Decoded0(i).descriptors[k].y)

(* C5: on the LoadPath the rescaling loop ends with an image of exactly the *)
(* cached (width, height) or the task fails with ResolutionMismatch: a     *)
(* Viewport of a view with a cache entry, force_recompute = false and an   *)
(* output record is never populated from an image of another size.         *)
C5_PopulatedAtCachedSize ==
    \A i \in Indices :
        LoadCase(i) =>
            /\ (pc[i] = "done" /\ Len(viewports[i].positions) > 0) => img[i] = Target(i)
            /\ pc[i] = "failed" => error = "ResolutionMismatch" /\ img[i] # Target(i)

C5_Witness ==
    \E i \in Indices :
        MatchCase(i) /\ pc[i] = "done" /\ trace[i].halvings >= 2
            /\ Target(i).width # Target(i).height

C5_WitnessFails ==
    \E i \in Indices :
        MatchCase(i) /\ pc[i] = "failed" /\ trace[i].halvings >= 1
            /\ img[i].width < Target(i).width /\ img[i].height = Target(i).height

C6_WitnessWithin ==
    \E i \in Indices :
        /\ trace[i].detector_calls = 1 /\ pc[i] = "done"
        /\ trace[i].halvings = 0 /\ Area(Source(i)) = opts.max_image_size

(* C7: at the end of compute every output slot, populated, left default    *)
(* for an absent view, or left behind by a failed task, has                *)
(* positions.length = colors.length = descr_data.length / descriptor_length *)
(* = the descriptor count of its view, with descriptor_length 128 for SIFT *)
(* and 64 for SURF.                                                        *)
Count(i) ==
    IF scene.views[i].present /\ pc[i] = "done" /\ ~trace[i].skipped
    THEN Len(descriptors[i])
    ELSE 0

C7_ViewportLengths ==
    (status \in {"returned", "threw"} /\ vp_given /\ ValidType) =>
        /\ Len(viewports) = Len(scene.views)
        /\ \A i \in Indices :
              /\ Len(viewports[i].positions) = Count(i)
              /\ Len(viewports[i].colors) = Count(i)
              /\ Len(viewports[i].descr_data) = Count(i) * (IF type = SIFT_FEATURES THEN 128 ELSE 64)
              /\ Len(viewports[i].descr_data) \div descriptor_length(type) = Count(i)
              /\ Len(viewports[i].descr_data) % descriptor_length(type) = 0

C7_Witness ==
    /\ status = "threw" /\ vp_given /\ error = "ResolutionMismatch"
    /\ \E i, j \in Indices :
          /\ pc[i] = "failed" /\ viewports[i].width > 0 /\ viewports[i].positions = <<>>
          /\ pc[j] = "done" /\ Len(viewports[j].positions) > 0
          /\ Len(viewports[j].descr_data) = 128 * Len(viewports[j].positions)

(* What the code of one view's iteration computes from the arguments of    *)
(* compute alone: whether it completes, the view's embedding, whether the  *)
(* view is saved, and the view's output slot.                              *)
Finished(v, D, im, vp) ==
    [ok |-> TRUE,
     data |-> IF Named THEN Data(WriteBackBlob(D, im, vp)) ELSE v.data,
     saved |-> Named /\ ShouldSave(opts),
     vp |-> IF vp_given THEN FillViewport(vp, D, im, descriptor_length(type)) ELSE vp]

Stopped(v, vp) == [ok |-> FALSE, data |-> v.data, saved |-> FALSE, vp |-> vp]

Computed(v, vp) ==
    LET im == HalveTimes(v.image, BudgetSteps(v.image, opts.max_image_size))
    IN  Finished(v, Detect(type, im), im, vp)

ViewOutcome(i) ==
    LET v == scene.views[i]
    IN  IF ~v.present THEN [ok |-> TRUE, data |-> v.data, saved |-> FALSE, vp |-> DefaultViewport]
        ELSE IF ~ValidType THEN Stopped(v, DefaultViewport)
        ELSE IF ~(~opts.force_recompute /\ Named /\ v.data.has) THEN Computed(v, DefaultViewport)
        ELSE IF ~vp_given THEN [ok |-> TRUE, data |-> v.data, saved |-> FALSE, vp |-> DefaultViewport]
        ELSE IF ~embedding_ok(v.data.bytes, descriptor_length(type)) THEN Stopped(v, DefaultViewport)
        ELSE LET dec == embedding_to_descriptors(v.data.bytes, descriptor_length(type))
                 vp == [DefaultViewport EXCEPT !.width = dec.width, !.height = dec.height]
                 im == HalveTimes(v.image, MatchSteps(v.image, vp))
             IN  IF Len(dec.descriptors) = 0 THEN Computed(v, vp)
                 ELSE IF Mismatch(im, vp) THEN Stopped(v, vp)
                 ELSE Finished(v, dec.descriptors, im, vp)

(* The sequential execution in index order stops at the first view whose   *)
(* iteration throws.                                                       *)
FirstFailure ==
    IF \E i \in Indices : ~ViewOutcome(i).ok
    THEN CHOOSE i \in Indices :
            ~ViewOutcome(i).ok /\ \A j \in Indices : j < i => ViewOutcome(j).ok
    ELSE Len(scene.views) + 1

SeqEmbedding(i) == IF i < FirstFailure THEN ViewOutcome(i).data ELSE Cache0(i)
SeqDisk(i) == IF i < FirstFailure /\ ViewOutcome(i).saved THEN ViewOutcome(i).data ELSE Cache0(i)
SeqViewport(i) == IF i <= FirstFailure THEN ViewOutcome(i).vp ELSE DefaultViewport

Ended == status \in {"returned", "threw", "terminated"}

(* C8: every interleaving of the per-view tasks, for every number of       *)
(* worker threads, ends with the output slots and the cache entry of every *)
(* view that the sequential execution in index order ends with.  When the  *)
(* process is terminated only the persisted cache entries are left to      *)
(* compare.                                                                *)
C8_SameAsSequential ==
    Ended =>
        \A i \in Indices :
            /\ disk[i] = SeqDisk(i)
            /\ status # "terminated" =>
                  /\ embedding[i] = SeqEmbedding(i)
                  /\ vp_given => viewports[i] = SeqViewport(i)

(* The runs in which no iteration throws do end as the sequential one.     *)
C8_FailureFreeRunsAgree ==
    status = "returned" =>
        \A i \in Indices :
            /\ disk[i] = SeqDisk(i)
            /\ embedding[i] = SeqEmbedding(i)
            /\ vp_given => viewports[i] = SeqViewport(i)

TaskStepped(j) == pc'[j] # pc[j] \/ trace'[j] # trace[j] \/ img'[j] # img[j]

(* C9: during the parallel run every view index is handled by exactly one  *)
(* task, only the task of view i changes output slot i and the cache entry *)
(* of view i, one task takes a step at a time, and the output list is      *)
(* not resized once the loop has started.                                  *)
C9_Step ==
    /\ \A j \in Indices :
          /\ trace'[j].runs <= 1
          /\ (pc[j] # "pending" /\ pc'[j] # "pending") => trace'[j].runs = 1
          /\ (embedding'[j] # embedding[j] \/ disk'[j] # disk[j]) => TaskStepped(j)
          /\ (status = "parallel" /\ vp_given /\ viewports'[j] # viewports[j]) => TaskStepped(j)
          /\ TaskStepped(j) => \A k \in Indices : k # j => ~TaskStepped(k)
    /\ status = "parallel" => Len(viewports') = Len(viewports)
    /\ status' = "returned" => \A j \in Indices : trace[j].runs = 1

C9_SlotOwnership == [][C9_Step]_vars

C9_Witness ==
    \E i, j \in Indices :
        /\ i # j /\ Running(i) /\ Running(j)
        /\ trace[i].slot_writes > 0 /\ trace[j].slot_writes > 0
        /\ trace[i].set_data > 0 /\ pc[j] = "build"

(* C10: a ResolutionMismatch raised by one view's task is surfaced to the  *)
(* caller of compute (the first failure, the outstanding work cancelled),  *)
(* or reported with all other failures once the other views completed;     *)
(* compute does not return as a success and the failure is not lost.       *)
C10_FailureSurfaced ==
    (\E i \in Indices : pc[i] = "failed" /\ error = "ResolutionMismatch") =>
        status = "threw"

(* C11: compute fails with InvalidArgument whenever the algorithm variant  *)
(* is not a recognized one, for every scene, also one with zero views and  *)
(* one whose views are all absent.  Stated for the calls that come back to *)
(* their caller.                                                           *)
C11_InvalidVariantRejected ==
    (~ValidType /\ status \in {"returned", "rejected", "threw"}) =>
        /\ status \in {"rejected", "threw"}
        /\ error = "InvalidArgument"

(* C12: every InvalidArgument is raised by the argument checks, before any *)
(* per-view work: at the moment it is raised no iteration has begun and no *)
(* view has been read or written.                                          *)
C12_InvalidArgumentBeforeWork ==
    error = "InvalidArgument" =>
        /\ status = "rejected"
        /\ \A i \in Indices :
              /\ pc[i] = "pending"
              /\ trace[i] = NoTrace
              /\ embedding[i] = Cache0(i)
              /\ disk[i] = Cache0(i)

GivenList == IF vp_given THEN <<StaleViewport>> ELSE <<>>

(* C13: with the scene absent, or with no output list and no cache-store   *)
(* name, compute fails with InvalidArgument: the loop is never entered, no *)
(* view is processed and a supplied output list keeps its contents.        *)
C13_ArgumentsRejected ==
    (~scene.present \/ (~vp_given /\ ~Named)) =>
        /\ status \in {"called", "rejected"}
        /\ status = "rejected" => error = "InvalidArgument"
        /\ viewports = GivenList
        /\ \A i \in Indices :
              /\ pc[i] = "pending"
              /\ trace[i] = NoTrace
              /\ embedding[i] = Cache0(i)
              /\ disk[i] = Cache0(i)

C13_Witness ==
    /\ ~scene.present /\ vp_given
    /\ status = "rejected" /\ error = "InvalidArgument"
    /\ viewports = <<StaleViewport>>

C13_WitnessNoTarget ==
    /\ scene.present /\ ~vp_given /\ ~Named
    /\ status = "rejected" /\ error = "InvalidArgument"
    /\ \E i \in Indices : scene.views[i].present /\ pc[i] = "pending"

(* C14: a provided output list loses its previous contents and has one     *)
(* default slot per view before any view is processed; slot i is filled    *)
(* from view i only; the slot of an absent view stays default and the      *)
(* absent view raises no error.                                            *)
C14_ResetAndInPlace ==
    (vp_given /\ status \notin {"called", "rejected"}) =>
        /\ Len(viewports) = Len(scene.views)
        /\ \A i \in Indices :
              /\ pc[i] = "pending" => viewports[i] = DefaultViewport
              /\ ~scene.views[i].present =>
                    /\ viewports[i] = DefaultViewport
                    /\ pc[i] \in {"pending", "done"}
              /\ (scene.views[i].present /\ pc[i] = "done") =>
                    viewports[i] = ViewOutcome(i).vp

C14_Witness ==
    /\ vp_given /\ status = "returned"
    /\ \E i, j \in Indices :
          /\ i < j
          /\ scene.views[i].present /\ Len(viewports[i].positions) > 0
          /\ ~scene.views[j].present /\ viewports[j] = DefaultViewport

(* C15: a task that completes, by succeeding or by failing with            *)
(* ResolutionMismatch, after loading the view's image or cache data has    *)
(* run the view's cache cleanup.  The failing tasks are taken where the    *)
(* exception reaches the caller of compute and the process goes on.        *)
C15_CleanupOnCompletion ==
    \A i \in Indices :
        (/\ scene.views[i].present
         /\ \/ pc[i] = "done"
            \/ pc[i] = "failed" /\ error = "ResolutionMismatch" /\ status = "threw"
         /\ trace[i].image_loads > 0 \/ trace[i].decodes > 0) =>
            trace[i].cleanups = 1

(* The tasks that succeed do run the cleanup.                              *)
C15_CleanupOnSuccess ==
    \A i \in Indices :
        (scene.views[i].present /\ pc[i] = "done" /\ trace[i].image_loads > 0) =>
            trace[i].cleanups = 1

(* C17: a task that fails with ResolutionMismatch has failed before the    *)
(* write-back: the view's cache entry is the one it started with, nothing  *)
(* was saved and the output slot holds no positions, colors or descriptor  *)
(* data; no task whose image misses the cached resolution gets as far as   *)
(* the write-back.                                                         *)
C17_MismatchBeforeWriteBack ==
    \A i \in Indices :
        /\ (pc[i] = "failed" /\ error = "ResolutionMismatch") =>
              /\ trace[i].set_data = 0
              /\ trace[i].saves = 0
              /\ embedding[i] = Cache0(i)
              /\ disk[i] = Cache0(i)
              /\ viewports[i].positions = <<>>
              /\ viewports[i].colors = <<>>
              /\ viewports[i].descr_data = <<>>
        /\ (MatchCase(i) /\ (Past(i) \/ trace[i].set_data > 0)) => img[i] = Target(i)

C17_Witness ==
    \E i \in Indices :
        /\ pc[i] = "failed" /\ error = "ResolutionMismatch"
        /\ Named /\ ~opts.skip_saving_views
        /\ trace[i].halvings >= 1
        /\ viewports[i].width > 0 /\ viewports[i].positions = <<>>

(* C18: the viewport of a completed task lists the descriptors in their    *)
(* order: positions[k] is descriptor k's (x, y), colors[k] is sampled at   *)
(* that position, and descriptor k's vector occupies descr_data from       *)
(* offset (k - 1) * descriptor_length on; every write lies inside the      *)
(* buffer of count * descriptor_length elements.                           *)
C18_BuilderKeepsOrder ==
    \A i \in Indices :
        (vp_given /\ scene.views[i].present /\ pc[i] = "done") =>
            LET D == descriptors[i]
                len == descriptor_length(type)
                vp == viewports[i]
            IN  /\ Len(vp.positions) = Len(D)
                /\ Len(vp.colors) = Len(D)
                /\ Len(vp.descr_data) = Len(D) * len
                /\ \A k \in 1..Len(D) :
                      /\ vp.positions[k] = <<D[k].x, D[k].y>>
                      /\ vp.colors[k] = linear_at(img[i], D[k].x, D[k].y)
                      /\ Len(D[k].data) = len
                      /\ \A j \in 1..len :
                            /\ (k - 1) * len + j \in 1..Len(vp.descr_data)
                            /\ vp.descr_data[(k - 1) * len + j] = D[k].data[j]

C18_Witness ==
    \E i \in Indices :
        /\ vp_given /\ pc[i] = "done" /\ type = SURF_FEATURES
        /\ Len(descriptors[i]) = 2
        /\ viewports[i].positions[1] # viewports[i].positions[2]
        /\ viewports[i].positions[2][1] # viewports[i].positions[2][2]
        /\ viewports[i].descr_data[64 + 1] = descriptors[i][2].data[1]

(* C19: a task of a view with a cache entry, force_recompute = false and   *)
(* an output record, that succeeds with the cache-store name configured,   *)
(* leaves the view's cache entry decoding to the (width, height,           *)
(* descriptors) it decoded to before the task.                             *)
C19_LoadPathKeepsCache ==
    \A i \in Indices :
        (LoadCase(i) /\ pc[i] = "done") =>
            /\ embedding_ok(embedding[i].bytes, descriptor_length(type))
            /\ embedding_to_descriptors(embedding[i].bytes, descriptor_length(type))
                  = Decoded0(i)

(* The entries with at least one descriptor are kept, byte for byte.       *)
C19_NonEmptyCacheKept ==
    \A i \in Indices :
        (MatchCase(i) /\ pc[i] = "done") =>
            /\ embedding[i] = Cache0(i)
            /\ trace[i].set_data = 1
            /\ disk[i] = Cache0(i)

Reused(i) ==
    /\ prev.calls = 1
    /\ scene.views[i].present
    /\ prev.trace[i].detector_calls = 1
    /\ prev.trace[i].set_data = 1
    /\ Len(prev.descriptors[i]) > 0
    /\ ~opts.force_recompute /\ vp_given

(* C16: after a call that computed a view's descriptors, at least one, and *)
(* wrote them to the cache, a later call on the unchanged source image     *)
(* with force_recompute = false and viewports requested loads them: the    *)
(* detector is not invoked, halving the source image reaches exactly the   *)
(* cached (width, height), the task never fails with ResolutionMismatch,   *)
(* and the viewport holds the positions and descriptor data of the first   *)
(* call's descriptors, for every image size and every budget >= 1.         *)
C16_CacheReuse ==
    \A i \in Indices :
        Reused(i) =>
            /\ trace[i].detector_calls = 0
            /\ pc[i] \in {"pending", "match", "writeback", "build", "done"}
            /\ pc[i] # "pending" =>
                  /\ trace[i].decodes = 1
                  /\ viewports[i].width = prev.img[i].width
                  /\ viewports[i].height = prev.img[i].height
                  /\ descriptors[i] = prev.descriptors[i]
            /\ Past(i) => img[i] = prev.img[i]
            /\ pc[i] = "done" =>
                  LET first == FillViewport(DefaultViewport, prev.descriptors[i],
                                            prev.img[i], descriptor_length(type))
                  IN  /\ viewports[i].positions = first.positions
                      /\ viewports[i].descr_data = first.descr_data
                      /\ viewports[i].colors = first.colors

C16_Witness ==
    \E i \in Indices :
        /\ Reused(i) /\ pc[i] = "done" /\ status = "returned"
        /\ trace[i].halvings >= 1
        /\ Len(viewports[i].positions) >= 1
        /\ opts.max_image_size > prev.opts.max_image_size
        /\ img[i].width # img[i].height

(* width * height > max, in the integers and without forming the product. *)
PixelsAbove(im, max) == im.width > 0 /\ im.height > max \div im.width

(* C20: the budget test is evaluated without wraparound for every image    *)
(* size that int dimensions can hold: no image whose pixel count exceeds   *)
(* max_image_size leaves the budget loop without having been halved.       *)
C20_BudgetTestExact ==
    \A i \in Indices :
        (/\ scene.views[i].present
         /\ opts.max_image_size >= 1
         /\ trace[i].detector_calls > 0
         /\ trace[i].halvings = 0) =>
            ~PixelsAbove(Source(i), opts.max_image_size)

(* Where the product fits an int the test is exact.                        *)
C20_ExactWithoutOverflow ==
    \A i \in Indices :
        (/\ scene.views[i].present
         /\ opts.max_image_size >= 1
         /\ trace[i].detector_calls > 0
         /\ ~IntOverflows(Source(i).width, Source(i).height)) =>
            /\ ~PixelsAbove(img[i], opts.max_image_size)
            /\ trace[i].halvings = 0 => ~PixelsAbove(Source(i), opts.max_image_size)

====
